---- MODULE Spec2Model ----
(***************************************************************************)
(* smooth-json: Flattener::flatten (src/src/lib.rs).                       *)
(*                                                                         *)
(* A serde_json Value is a record [t, v]: t is the variant, v the payload. *)
(* A String is a sequence of one-character strings, so that joining path   *)
(* segments with the separator is real concatenation.  A Map<String,Value> *)
(* is the sequence of its entries [k, v] in iteration order, keys distinct.*)
(***************************************************************************)
EXTENDS Integers, Sequences, FiniteSets, TLC

VARIABLES json, separator, alt_array_flattening, preserve_arrays, pc, flat, reflat

vars == <<json, separator, alt_array_flattening, preserve_arrays, pc, flat, reflat>>

(* Total number of nodes (scalars, arrays, objects) of a generated input. *)
MaxNodes == 4

-----------------------------------------------------------------------------
(* serde_json::Value *)

ScalarKinds == {"null", "bool", "number", "string"}

Null == [t |-> "null", v |-> <<>>]
Bool(b) == [t |-> "bool", v |-> <<b>>]
Number(digits) == [t |-> "number", v |-> digits]
String(chars) == [t |-> "string", v |-> chars]
Array(elems) == [t |-> "array", v |-> elems]
Object(entries) == [t |-> "object", v |-> entries]

IsScalar(x) == x.t \in ScalarKinds
as_array(x) == x.t = "array"

(* format!("{k}") of a usize: its decimal digits *)
Digit(d) == <<"0", "1", "2", "3", "4", "5", "6", "7", "8", "9">>[d + 1]

RECURSIVE ToDecimal(_)
ToDecimal(n) == IF n < 10 THEN <<Digit(n)>> ELSE ToDecimal(n \div 10) \o <<Digit(n % 10)>>

-----------------------------------------------------------------------------
(* serde_json::Map<String, Value>, in iteration order *)

MapKeys(m) == {m[i].k : i \in 1..Len(m)}
contains_key(m, key) == \E i \in 1..Len(m) : m[i].k = key
IndexOf(m, key) == CHOOSE i \in 1..Len(m) : m[i].k = key
get(m, key) == m[IndexOf(m, key)].v

(* Map::remove: the last entry takes the place of the removed one *)
remove(m, key) ==
    IF ~contains_key(m, key) THEN m
    ELSE LET i == IndexOf(m, key)
             n == Len(m)
         IN  IF i = n THEN SubSeq(m, 1, n - 1)
             ELSE [j \in 1..(n - 1) |-> IF j = i THEN m[n] ELSE m[j]]

(* Map::insert: a new key goes last, a present key keeps its place *)
insert(m, key, val) ==
    IF contains_key(m, key)
    THEN [m EXCEPT ![IndexOf(m, key)].v = val]
    ELSE Append(m, [k |-> key, v |-> val])

(* Vec::push through the reference get_mut returned *)
push(m, key, val) ==
    [m EXCEPT ![IndexOf(m, key)].v = Array(Append(@.v, val))]

-----------------------------------------------------------------------------
(* Flattener *)

None == [some |-> FALSE, s |-> <<>>]
Some(s) == [some |-> TRUE, s |-> s]

(* a colliding write replaces the value already there *)
flatten_value_overwrite(builder, identifier, obj, arr) ==
    insert(builder, identifier, IF arr THEN Array(<<obj>>) ELSE obj)

(* a colliding write pairs the new value with whatever is there, array or not *)
flatten_value_nest(builder, identifier, obj, arr) ==
    IF contains_key(builder, identifier)
    THEN LET v == get(builder, identifier)
             new_val == Array(<<v, obj>>)
         IN  insert(remove(builder, identifier), identifier, new_val)
    ELSE insert(builder, identifier, IF arr THEN Array(<<obj>>) ELSE obj)

(* the second value of a collision is put before the first *)
flatten_value_reversed(builder, identifier, obj, arr) ==
    IF contains_key(builder, identifier)
    THEN LET v == get(builder, identifier)
         IN  IF as_array(v)
             THEN push(builder, identifier, obj)
             ELSE LET new_val == Array(<<obj, v>>)
                  IN  insert(remove(builder, identifier), identifier, new_val)
    ELSE insert(builder, identifier, IF arr THEN Array(<<obj>>) ELSE obj)

(* a first write is wrapped whatever the flag says *)
flatten_value_always_wrap(builder, identifier, obj, arr) ==
    IF contains_key(builder, identifier)
    THEN LET v == get(builder, identifier)
         IN  IF as_array(v)
             THEN push(builder, identifier, obj)
             ELSE LET new_val == Array(<<v, obj>>)
                  IN  insert(remove(builder, identifier), identifier, new_val)
    ELSE insert(builder, identifier, Array(<<obj>>))

flatten_value(builder, identifier, obj, arr) ==
    IF contains_key(builder, identifier)
    THEN LET v == get(builder, identifier)
         IN  IF as_array(v)
             THEN push(builder, identifier, obj)
             ELSE LET new_val == Array(<<v, obj>>)
                  IN  insert(remove(builder, identifier), identifier, new_val)
    ELSE insert(builder, identifier, IF arr THEN Array(<<obj>>) ELSE obj)

(* an empty parent identifier is taken for no parent *)
expanded_identifier_skip_empty(identifier, k) ==
    IF identifier.some /\ identifier.s # <<>> THEN identifier.s \o separator \o k ELSE k

expanded_identifier(identifier, k) ==
    IF identifier.some THEN identifier.s \o separator \o k ELSE k

with_key(identifier, k) == identifier \o separator \o ToDecimal(k)

(* the index is never put in the key *)
element_identifier_drop_index(identifier, k) == identifier

element_identifier(identifier, k) ==
    IF preserve_arrays THEN with_key(identifier, k) ELSE identifier

RECURSIVE flatten_object(_, _, _, _), flatten_array(_, _, _)

(* a nested object does not inherit the flag of the enclosing array *)
object_entry_drop_arr(builder, identifier, k, v, arr) ==
    LET expanded == expanded_identifier(identifier, k)
    IN  CASE v.t = "object" -> flatten_object(builder, Some(expanded), v.v, FALSE)
          [] v.t = "array" -> flatten_array(builder, expanded, v.v)
          [] OTHER -> flatten_value(builder, expanded, v, arr)

object_entry(builder, identifier, k, v, arr) ==
    LET expanded == expanded_identifier(identifier, k)
    IN  CASE v.t = "object" -> flatten_object(builder, Some(expanded), v.v, arr)
          [] v.t = "array" -> flatten_array(builder, expanded, v.v)
          [] OTHER -> flatten_value(builder, expanded, v, arr)

(* a direct scalar element is always written as array context *)
array_element_wrap(builder, identifier, k, v) ==
    CASE v.t = "object" ->
             flatten_object(builder, Some(element_identifier(identifier, k)), v.v,
                            alt_array_flattening)
      [] v.t = "array" ->
             flatten_array(builder, element_identifier(identifier, k), v.v)
      [] OTHER ->
             flatten_value(builder, element_identifier(identifier, k), v, TRUE)

array_element(builder, identifier, k, v) ==
    CASE v.t = "object" ->
             flatten_object(builder, Some(element_identifier(identifier, k)), v.v,
                            alt_array_flattening)
      [] v.t = "array" ->
             flatten_array(builder, element_identifier(identifier, k), v.v)
      [] OTHER ->
             flatten_value(builder, element_identifier(identifier, k), v,
                           alt_array_flattening)

(* for (k, v) in obj: the entries before the last, then the last *)
flatten_object(builder, identifier, obj, arr) ==
    IF Len(obj) = 0 THEN builder
    ELSE LET n == Len(obj)
         IN  object_entry(flatten_object(builder, identifier, SubSeq(obj, 1, n - 1), arr),
                          identifier, obj[n].k, obj[n].v, arr)

(* an array leaves an array under its identifier before its elements are walked *)
flatten_array_keep_empty(builder, identifier, obj) ==
    IF Len(obj) = 0
    THEN IF contains_key(builder, identifier) THEN builder
         ELSE insert(builder, identifier, Array(<<>>))
    ELSE LET n == Len(obj)
         IN  array_element(flatten_array(builder, identifier, SubSeq(obj, 1, n - 1)),
                           identifier, n - 1, obj[n])

(* for (k, v) in obj.iter().enumerate(): k counts from 0 *)
flatten_array(builder, identifier, obj) ==
    IF Len(obj) = 0 THEN builder
    ELSE LET n == Len(obj)
         IN  array_element(flatten_array(builder, identifier, SubSeq(obj, 1, n - 1)),
                           identifier, n - 1, obj[n])

(* a root scalar is written as array context *)
flatten_wrap_root(value) ==
    LET flattened_val == <<>>
    IN  Object(CASE value.t = "array" -> flatten_array(flattened_val, <<>>, value.v)
                 [] value.t = "object" -> flatten_object(flattened_val, None, value.v, FALSE)
                 [] OTHER -> flatten_value(flattened_val, <<>>, value, TRUE))

flatten(value) ==
    LET flattened_val == <<>>
    IN  Object(CASE value.t = "array" -> flatten_array(flattened_val, <<>>, value.v)
                 [] value.t = "object" -> flatten_object(flattened_val, None, value.v, FALSE)
                 [] OTHER -> flatten_value(flattened_val, <<>>, value, FALSE))

-----------------------------------------------------------------------------
(* Inputs *)

Separators == {<<".">>, <<"$">>}

Keys == {<<>>, <<"0">>, <<".", "0">>}

(* Input shapes with exactly n nodes; every leaf is a placeholder that      *)
(* Relabel replaces by a scalar of its own.                                *)
RECURSIVE ShapesOfSize(_), Forests(_)

Injective(f) == \A i, j \in DOMAIN f : f[i] = f[j] => i = j

ObjectsOver(children) ==
    {Object([i \in 1..Len(children) |-> [k |-> ks[i], v |-> children[i]]]) :
        ks \in {f \in [1..Len(children) -> Keys] : Injective(f)}}

ShapesOfSize(n) ==
    IF n = 1 THEN {Null, Array(<<>>), Object(<<>>)}
    ELSE {Array(f) : f \in Forests(n - 1)}
         \cup UNION {ObjectsOver(f) : f \in Forests(n - 1)}

(* the sequences of shapes with n nodes in total *)
Forests(n) ==
    IF n = 0 THEN {<<>>}
    ELSE UNION {{<<x>> \o f : x \in ShapesOfSize(k), f \in Forests(n - k)} : k \in 1..n}

(* the i-th leaf in document order: a string or a number naming i *)
Leaf(i) == IF i % 2 = 1 THEN String(ToDecimal(i)) ELSE Number(ToDecimal(i))

RECURSIVE Relabel(_, _), RelabelAll(_, _)

(* [val, next]: x with its leaves numbered from i on, and the next free number *)
Relabel(x, i) ==
    CASE x.t = "array" ->
             LET r == RelabelAll(x.v, i)
             IN  [val |-> Array(r.vals), next |-> r.next]
      [] x.t = "object" ->
             LET r == RelabelAll([j \in 1..Len(x.v) |-> x.v[j].v], i)
             IN  [val |-> Object([j \in 1..Len(x.v) |-> [k |-> x.v[j].k, v |-> r.vals[j]]]),
                  next |-> r.next]
      [] OTHER -> [val |-> Leaf(i), next |-> i + 1]

RelabelAll(xs, i) ==
    IF Len(xs) = 0 THEN [vals |-> <<>>, next |-> i]
    ELSE LET r == Relabel(xs[1], i)
             rest == RelabelAll(SubSeq(xs, 2, Len(xs)), r.next)
         IN  [vals |-> <<r.val>> \o rest.vals, next |-> rest.next]

Generated == {Relabel(x, 1).val : x \in UNION {ShapesOfSize(n) : n \in 1..MaxNodes}}

(* The inputs of the tests of src/src/lib.rs *)
Str(c) == String(<<c>>)
Entry(key, val) == [k |-> key, v |-> val]

collision_object ==
    Object(<<Entry(<<"a">>, Object(<<Entry(<<"b">>, Str("c"))>>)),
             Entry(<<"a", ".", "b">>, Str("d"))>>)

collision_array ==
    Object(<<Entry(<<"a">>,
                   Array(<<Object(<<Entry(<<"b">>, Str("c"))>>),
                           Object(<<Entry(<<"b">>, Str("d")), Entry(<<"c">>, Str("e"))>>),
                           Array(<<Number(<<"3", "5">>)>>)>>)),
             Entry(<<"a", ".", "b">>, Str("f"))>>)

nested_arrays ==
    Object(<<Entry(<<"a">>,
                   Array(<<Array(<<Str("b"), Str("c")>>),
                           Object(<<Entry(<<"d">>, Str("e"))>>),
                           Array(<<Str("f"), Str("g")>>),
                           Array(<<Object(<<Entry(<<"h">>, Str("i"))>>),
                                   Object(<<Entry(<<"d">>, Str("j"))>>)>>),
                           Array(<<Str("k"), Str("l")>>)>>))>>)

nested_arrays_and_objects ==
    Object(<<Entry(<<"a">>,
                   Array(<<Str("b"),
                           Array(<<Str("c"), Str("d")>>),
                           Object(<<Entry(<<"e">>, Array(<<Str("f"), Str("g")>>))>>),
                           Array(<<Object(<<Entry(<<"h">>, Str("i"))>>),
                                   Object(<<Entry(<<"e">>,
                                                  Array(<<Str("j"),
                                                          Object(<<Entry(<<"z">>, Str("y"))>>)>>))>>)>>),
                           Array(<<Str("l")>>),
                           Str("m")>>))>>)

custom_separator ==
    Object(<<Entry(<<"a">>, Object(<<Entry(<<"b">>, Number(<<"1">>))>>))>>)

array ==
    Object(<<Entry(<<"a">>,
                   Array(<<Object(<<Entry(<<"b">>, Str("1"))>>),
                           Object(<<Entry(<<"b">>, Str("2"))>>),
                           Object(<<Entry(<<"b">>, Str("3"))>>)>>))>>)

array_no_collision ==
    Object(<<Entry(<<"a">>, Array(<<Object(<<Entry(<<"b">>, Array(<<Str("1")>>))>>)>>))>>)

arr_no_key == Array(<<Str("a"), Str("b")>>)

arr_empty_key ==
    Object(<<Entry(<<>>,
                   Array(<<Str("a"), Str("b"),
                           Object(<<Entry(<<"b">>, Array(<<Str("1")>>))>>)>>))>>)

only_value == String(<<"a", "b", "c">>)

Tests ==
    {collision_object, collision_array, nested_arrays, nested_arrays_and_objects,
     custom_separator, array, array_no_collision, arr_no_key, arr_empty_key, only_value}

(* an array long enough for an index of two digits *)
LongArray == Array([i \in 1..11 |-> Leaf(i)])

(* null and bool leaves inside containers, some of them equal *)
NullsAndBools ==
    Object(<<Entry(<<"0">>, Array(<<Null, Bool(TRUE), Null>>)),
             Entry(<<>>, Object(<<Entry(<<"0">>, Bool(TRUE))>>)),
             Entry(<<".", "0">>, Null)>>)

Inputs == Generated \cup Tests \cup {Null, Bool(TRUE), Bool(FALSE), LongArray, NullsAndBools}

Unset == [t |-> "unset", v |-> <<>>]

Init ==
    /\ json \in Inputs
    /\ separator \in Separators
    /\ alt_array_flattening \in BOOLEAN
    /\ preserve_arrays \in BOOLEAN
    /\ pc = "start"
    /\ flat = Unset
    /\ reflat = Unset

Flatten ==
    /\ pc = "start"
    /\ flat' = flatten(json)
    /\ pc' = "flat"
    /\ UNCHANGED <<json, separator, alt_array_flattening, preserve_arrays, reflat>>

(* The iteration order of a Map depends on the build of serde_json: with   *)
(* preserve_order it is the order the entries took in the map, without it *)
(* the map is a BTreeMap and iterates by ascending key.                    *)
Chars ==
    <<"$", ".", "0", "1", "2", "3", "4", "5", "6", "7", "8", "9",
      "a", "b", "c", "d", "e", "f", "g", "h", "i", "j", "k", "l", "m",
      "n", "o", "p", "q", "r", "s", "t", "u", "v", "w", "x", "y", "z">>

Code(c) == CHOOSE i \in 1..Len(Chars) : Chars[i] = c

RECURSIVE StrLess(_, _)
StrLess(a, b) ==
    IF Len(b) = 0 THEN FALSE
    ELSE IF Len(a) = 0 THEN TRUE
    ELSE IF a[1] = b[1] THEN StrLess(Tail(a), Tail(b))
    ELSE Code(a[1]) < Code(b[1])

RECURSIVE ByKey(_)
ByKey(m) ==
    IF Len(m) = 0 THEN <<>>
    ELSE LET i == CHOOSE j \in 1..Len(m) : \A h \in 1..Len(m) : ~StrLess(m[h].k, m[j].k)
         IN  <<m[i]>> \o ByKey([j \in 1..(Len(m) - 1) |-> IF j < i THEN m[j] ELSE m[j + 1]])

Orders(m) == {m, ByKey(m)}

Reflatten ==
    /\ pc = "flat"
    /\ \E entries \in Orders(flat.v) : reflat' = flatten(Object(entries))
    /\ pc' = "reflat"
    /\ UNCHANGED <<json, separator, alt_array_flattening, preserve_arrays, flat>>

Next == Flatten \/ Reflatten

Spec == Init /\ [][Next]_vars

-----------------------------------------------------------------------------
(* The input seen from outside the algorithm: its scalar leaves in         *)
(* depth-first document order, each with the path that leads to it.        *)

KeySegment(key) == [index |-> FALSE, n |-> 0, s |-> key]
IndexSegment(i) == [index |-> TRUE, n |-> i, s |-> <<>>]

ChildrenOf(x) ==
    IF x.t = "array"
    THEN [i \in 1..Len(x.v) |-> [seg |-> IndexSegment(i - 1), v |-> x.v[i]]]
    ELSE [i \in 1..Len(x.v) |-> [seg |-> KeySegment(x.v[i].k), v |-> x.v[i].v]]

RECURSIVE LeavesBelow(_, _, _), LeavesOfChildren(_, _, _)

LeavesBelow(x, path, in_array) ==
    IF IsScalar(x) THEN <<[path |-> path, val |-> x, in_array |-> in_array]>>
    ELSE LeavesOfChildren(ChildrenOf(x), path, in_array \/ x.t = "array")

LeavesOfChildren(cs, path, in_array) ==
    IF Len(cs) = 0 THEN <<>>
    ELSE LeavesBelow(cs[1].v, Append(path, cs[1].seg), in_array)
         \o LeavesOfChildren(SubSeq(cs, 2, Len(cs)), path, in_array)

Leaves(x) == LeavesBelow(x, <<>>, FALSE)

(* the strings a path contributes to the key: every object key, and the    *)
(* decimal index of every array element when indices are preserved         *)
RECURSIVE SegmentStrings(_)
SegmentStrings(path) ==
    IF Len(path) = 0 THEN <<>>
    ELSE LET seg == path[Len(path)]
             front == SegmentStrings(SubSeq(path, 1, Len(path) - 1))
         IN  IF ~seg.index THEN Append(front, seg.s)
             ELSE IF preserve_arrays THEN Append(front, ToDecimal(seg.n))
             ELSE front

RECURSIVE Join(_)
Join(strs) ==
    IF Len(strs) = 0 THEN <<>>
    ELSE IF Len(strs) = 1 THEN strs[1]
    ELSE Join(SubSeq(strs, 1, Len(strs) - 1)) \o separator \o strs[Len(strs)]

(* a root that is no object is itself under the empty-string identifier *)
RootStrings(x) == IF x.t = "object" THEN <<>> ELSE << <<>> >>

PathKey(x, leaf) == Join(RootStrings(x) \o SegmentStrings(leaf.path))

(* the leaves among ls that map to key, in document order *)
RECURSIVE LeavesUnder(_, _, _)
LeavesUnder(x, ls, key) ==
    IF Len(ls) = 0 THEN <<>>
    ELSE LET front == LeavesUnder(x, SubSeq(ls, 1, Len(ls) - 1), key)
             l == ls[Len(ls)]
         IN  IF PathKey(x, l) = key THEN Append(front, l) ELSE front

ValuesOf(ls) == [i \in 1..Len(ls) |-> ls[i].val]

ValuesUnder(x, ls, key) == ValuesOf(LeavesUnder(x, ls, key))

(* the object keys that occur anywhere in x *)
RECURSIVE KeysIn(_)
KeysIn(x) ==
    CASE x.t = "object" ->
             MapKeys(x.v) \cup UNION {KeysIn(x.v[i].v) : i \in 1..Len(x.v)}
      [] x.t = "array" -> UNION {KeysIn(x.v[i]) : i \in 1..Len(x.v)}
      [] OTHER -> {}

CharsOf(str) == {str[i] : i \in 1..Len(str)}

Digits == {Digit(d) : d \in 0..9}

(* no key of x, and no decimal index, holds a character of the separator *)
SeparatorFree(x) ==
    /\ Len(separator) > 0
    /\ CharsOf(separator) \cap Digits = {}
    /\ \A key \in KeysIn(x) : CharsOf(key) \cap CharsOf(separator) = {}

IsDirectElement(l) == Len(l.path) > 0 /\ l.path[Len(l.path)].index

(* the leaf is the only one of the input that maps to its key *)
Alone(x, l) == Len(LeavesUnder(x, Leaves(x), PathKey(x, l))) = 1

ScalarArray(x) ==
    /\ x.t = "array"
    /\ \A i \in 1..Len(x.v) : IsScalar(x.v[i])

LeafKeys(x) == {PathKey(x, Leaves(x)[i]) : i \in 1..Len(Leaves(x))}

(* what an output entry holds: the lone scalar, or the elements of the array *)
Elems(val) == IF val.t = "array" THEN val.v ELSE <<val>>

(* Value equality of two objects: the same keys with the same values *)
SameObject(a, b) ==
    /\ MapKeys(a.v) = MapKeys(b.v)
    /\ \A key \in MapKeys(a.v) : get(a.v, key) = get(b.v, key)

DistinctKeys(m) == \A i, j \in 1..Len(m) : m[i].k = m[j].k => i = j

Flattened == pc # "start"

-----------------------------------------------------------------------------
(* C1: the result holds exactly the scalar leaves of the input: under each *)
(* output key, the values of the leaves whose path maps to that key, in    *)
(* depth-first document order, none lost, none duplicated, none            *)
(* overwritten by a later colliding write.                                 *)
C1_LeavesPreserved ==
    Flattened =>
        /\ DistinctKeys(flat.v)
        /\ \A key \in MapKeys(flat.v) \cup LeafKeys(json) :
              /\ contains_key(flat.v, key)
              /\ Elems(get(flat.v, key)) = ValuesUnder(json, Leaves(json), key)

(* a collision of two object paths and one of array elements, both merged *)
C1_Witness ==
    /\ pc = "flat"
    /\ json.t = "object"
    /\ \E key \in MapKeys(flat.v) :
          /\ Len(Elems(get(flat.v, key))) >= 3
          /\ \E i \in 1..Len(Leaves(json)) :
                /\ PathKey(json, Leaves(json)[i]) = key
                /\ ~Leaves(json)[i].in_array

(* C2: the result is a flat object: every value in it is a scalar or an   *)
(* array of scalars.                                                       *)
FlatObject(x) ==
    /\ x.t = "object"
    /\ \A i \in 1..Len(x.v) :
          \/ IsScalar(x.v[i].v)
          \/ /\ x.v[i].v.t = "array"
             /\ \A j \in 1..Len(x.v[i].v.v) : IsScalar(x.v[i].v.v[j])

C2_ResultIsFlat ==
    /\ Flattened => FlatObject(flat)
    /\ pc = "reflat" => FlatObject(reflat)

(* nested arrays and objects in the input, a merged array in the result *)
C2_Witness ==
    /\ pc = "flat"
    /\ ~IsScalar(json)
    /\ \E i \in 1..Len(ChildrenOf(json)) :
          /\ ChildrenOf(json)[i].v.t \in {"array", "object"}
          /\ Len(ChildrenOf(json)[i].v.v) > 0
    /\ \E key \in MapKeys(flat.v) : Len(Elems(get(flat.v, key))) >= 3

(* C6: the key of a leaf is its path segments joined by the separator; an *)
(* empty-string identifier counts as a parent.                             *)
C6_KeyIsJoinedPath ==
    Flattened =>
        /\ MapKeys(flat.v) = LeafKeys(json)
        /\ \A i \in 1..Len(Leaves(json)) :
              LET l == Leaves(json)[i]
              IN  /\ contains_key(flat.v, PathKey(json, l))
                  /\ \E j \in 1..Len(Elems(get(flat.v, PathKey(json, l)))) :
                        Elems(get(flat.v, PathKey(json, l)))[j] = l.val
        /\ (/\ json = arr_empty_key
            /\ separator = <<".">>
            /\ ~alt_array_flattening
            /\ ~preserve_arrays)
           => SameObject(flat, Object(<<Entry(<<>>, Array(<<Str("a"), Str("b")>>)),
                                        Entry(<<".", "b">>, Str("1"))>>))
        /\ (/\ json = custom_separator
            /\ separator = <<"$">>)
           => SameObject(flat, Object(<<Entry(<<"a", "$", "b">>, Number(<<"1">>))>>))

(* a leaf below an empty-string identifier, under an array whose index is kept *)
C6_Witness ==
    /\ pc = "flat"
    /\ preserve_arrays
    /\ \E i \in 1..Len(Leaves(json)) :
          LET l == Leaves(json)[i]
          IN  /\ Len(l.path) >= 3
              /\ ~l.path[1].index /\ l.path[1].s = <<>>
              /\ l.path[2].index
              /\ ~l.path[3].index
              /\ contains_key(flat.v, <<>> \o separator \o ToDecimal(l.path[2].n)
                                           \o separator \o l.path[3].s)

(* C3 as stated: with preserve_arrays, a leaf that has an array ancestor  *)
(* is never merged with another leaf of the input, and with               *)
(* alt_array_flattening = false its key holds it as a bare scalar.        *)
C3_Original ==
    (Flattened /\ preserve_arrays) =>
        \A i \in 1..Len(Leaves(json)) :
            LET l == Leaves(json)[i]
            IN  l.in_array =>
                    /\ Alone(json, l)
                    /\ contains_key(flat.v, PathKey(json, l))
                    /\ ~alt_array_flattening => get(flat.v, PathKey(json, l)) = l.val

(* C3, amended: the same, for the inputs in which no object key holds a   *)
(* character of the separator (the separator being non-empty and without  *)
(* a decimal digit); with alt_array_flattening the key holds the leaf as  *)
(* a one-element array.                                                   *)
C3_UniqueKeysWhenSeparatorFree ==
    (Flattened /\ preserve_arrays /\ SeparatorFree(json)) =>
        \A i \in 1..Len(Leaves(json)) :
            LET l == Leaves(json)[i]
            IN  l.in_array =>
                    /\ Alone(json, l)
                    /\ contains_key(flat.v, PathKey(json, l))
                    /\ get(flat.v, PathKey(json, l))
                         = IF alt_array_flattening THEN Array(<<l.val>>) ELSE l.val

(* two elements of one array below an object key, indices kept in the keys *)
C3_Witness ==
    /\ pc = "flat"
    /\ preserve_arrays
    /\ separator = <<".">>
    /\ SeparatorFree(json)
    /\ json.t = "object"
    /\ \E i, j \in 1..Len(Leaves(json)) :
          LET a == Leaves(json)[i]
              b == Leaves(json)[j]
          IN  /\ i # j
              /\ IsDirectElement(a) /\ IsDirectElement(b)
              /\ SubSeq(a.path, 1, Len(a.path) - 1) = SubSeq(b.path, 1, Len(b.path) - 1)
              /\ get(flat.v, PathKey(json, a)) = a.val
              /\ get(flat.v, PathKey(json, b)) = b.val

(* C4: with alt_array_flattening, a key that receives a leaf with an      *)
(* array ancestor at any depth holds an array, even for a single leaf; a  *)
(* key that receives one leaf with no array ancestor holds it bare.       *)
C4_AltWrapsArrayDerived ==
    (Flattened /\ alt_array_flattening) =>
        \A key \in MapKeys(flat.v) :
            LET ls == LeavesUnder(json, Leaves(json), key)
            IN  /\ (\E i \in 1..Len(ls) : ls[i].in_array) => get(flat.v, key).t = "array"
                /\ (Len(ls) = 1 /\ ~ls[1].in_array) => get(flat.v, key) = ls[1].val

(* a lone leaf two objects below an array element, held as an array *)
C4_Witness ==
    /\ pc = "flat"
    /\ alt_array_flattening
    /\ \E i \in 1..Len(Leaves(json)) :
          LET l == Leaves(json)[i]
          IN  /\ Len(l.path) >= 3
              /\ l.path[Len(l.path) - 2].index
              /\ ~l.path[Len(l.path) - 1].index
              /\ ~l.path[Len(l.path)].index
              /\ Alone(json, l)
              /\ get(flat.v, PathKey(json, l)) = Array(<<l.val>>)

(* C5: without alt_array_flattening, a key that receives exactly one leaf *)
(* holds it bare even when it came from inside an array, so every array   *)
(* of the result has at least two elements.                               *)
C5_DefaultHasNoSingletonArray ==
    (Flattened /\ ~alt_array_flattening) =>
        /\ \A key \in MapKeys(flat.v) :
              LET ls == LeavesUnder(json, Leaves(json), key)
              IN  /\ Len(ls) = 1 => get(flat.v, key) = ls[1].val
                  /\ get(flat.v, key).t = "array" => Len(get(flat.v, key).v) >= 2
        /\ (json = array_no_collision /\ separator = <<".">> /\ ~preserve_arrays)
           => SameObject(flat, Object(<<Entry(<<"a", ".", "b">>, Str("1"))>>))

(* a lone element of a root array, held bare *)
C5_Witness ==
    /\ pc = "flat"
    /\ ~alt_array_flattening
    /\ ~preserve_arrays
    /\ json.t = "array"
    /\ \E i \in 1..Len(Leaves(json)) :
          LET l == Leaves(json)[i]
          IN  /\ IsDirectElement(l)
              /\ Alone(json, l)
              /\ get(flat.v, PathKey(json, l)) = l.val

(* C7 as stated: under every configuration a root scalar s gives exactly  *)
(* {"": s}, and a root array of two or more scalars gives exactly one     *)
(* entry, under the empty-string key, with the elements in index order.   *)
C7_Original ==
    Flattened =>
        /\ IsScalar(json) => flat = Object(<<Entry(<<>>, json)>>)
        /\ (ScalarArray(json) /\ Len(json.v) >= 2)
           => flat = Object(<<Entry(<<>>, Array(json.v))>>)

(* C7, amended: a root scalar s gives exactly {"": s} under every         *)
(* configuration; a root array of two or more scalars gives exactly one   *)
(* entry under the empty-string key when preserve_arrays = false, and     *)
(* when preserve_arrays = true one entry per element, element i under the *)
(* separator followed by the decimal i, not merged with any other.        *)
C7_RootDispatch ==
    Flattened =>
        /\ IsScalar(json) => flat = Object(<<Entry(<<>>, json)>>)
        /\ (ScalarArray(json) /\ Len(json.v) >= 2 /\ ~preserve_arrays)
           => flat = Object(<<Entry(<<>>, Array(json.v))>>)
        /\ (ScalarArray(json) /\ Len(json.v) >= 2 /\ preserve_arrays)
           => /\ Len(flat.v) = Len(json.v)
              /\ \A i \in 1..Len(json.v) :
                    /\ contains_key(flat.v, separator \o ToDecimal(i - 1))
                    /\ get(flat.v, separator \o ToDecimal(i - 1))
                         = IF alt_array_flattening THEN Array(<<json.v[i]>>) ELSE json.v[i]

(* a root array of scalars flattened with its indices kept *)
C7_Witness ==
    /\ pc = "flat"
    /\ preserve_arrays
    /\ ScalarArray(json)
    /\ Len(json.v) >= 2
    /\ Len(flat.v) = Len(json.v)

(* C8 as stated: a scalar that is a direct element of an array is written *)
(* as array context under every configuration, so when no other leaf maps *)
(* to its key it is held as a one-element array.                          *)
C8_Original ==
    Flattened =>
        \A i \in 1..Len(Leaves(json)) :
            LET l == Leaves(json)[i]
            IN  (IsDirectElement(l) /\ Alone(json, l))
                => /\ contains_key(flat.v, PathKey(json, l))
                   /\ get(flat.v, PathKey(json, l)) = Array(<<l.val>>)

(* C8, amended: a scalar that is a direct element of an array is written  *)
(* with the flag alt_array_flattening, so when no other leaf maps to its  *)
(* key it is held as a one-element array if alt_array_flattening is true  *)
(* and as the bare scalar if it is false.                                 *)
C8_DirectElementFollowsAlt ==
    Flattened =>
        \A i \in 1..Len(Leaves(json)) :
            LET l == Leaves(json)[i]
            IN  (IsDirectElement(l) /\ Alone(json, l))
                => /\ contains_key(flat.v, PathKey(json, l))
                   /\ get(flat.v, PathKey(json, l))
                        = IF alt_array_flattening THEN Array(<<l.val>>) ELSE l.val

(* the lone element of an array under an object key, in default mode *)
C8_Witness ==
    /\ pc = "flat"
    /\ ~alt_array_flattening
    /\ json.t = "object"
    /\ \E i \in 1..Len(Leaves(json)) :
          LET l == Leaves(json)[i]
          IN  /\ Len(l.path) = 2
              /\ IsDirectElement(l)
              /\ Alone(json, l)
              /\ IsScalar(get(flat.v, PathKey(json, l)))

(* C9: with preserve_arrays = false, flattening the result again changes  *)
(* nothing; with preserve_arrays = true it changes the result whenever    *)
(* the first flattening produced a merged array.                          *)
HasMergedArray(x) ==
    \E i \in 1..Len(x.v) : x.v[i].v.t = "array" /\ Len(x.v[i].v.v) >= 2

C9_Idempotence ==
    pc = "reflat" =>
        /\ ~preserve_arrays => SameObject(reflat, flat)
        /\ (preserve_arrays /\ HasMergedArray(flat)) => ~SameObject(reflat, flat)

(* a result with a merged array and another key, flattened again *)
C9_Witness ==
    /\ pc = "reflat"
    /\ ~preserve_arrays
    /\ HasMergedArray(flat)
    /\ Len(flat.v) >= 2
    /\ \E i \in 1..Len(flat.v) : IsScalar(flat.v[i].v)

(* C10: empty objects and arrays leave no key: the result has a key only  *)
(* if a scalar leaf maps to it, no entry is an empty array, and an input  *)
(* without scalar leaves gives the empty object.                          *)
C10_EmptyContainersLeaveNoTrace ==
    Flattened =>
        /\ MapKeys(flat.v) \subseteq LeafKeys(json)
        /\ \A i \in 1..Len(flat.v) : Len(Elems(flat.v[i].v)) > 0
        /\ Len(Leaves(json)) = 0 => flat = Object(<<>>)

(* an object of empty containers, one of them nested, flattened to nothing *)
C10_Witness ==
    /\ pc = "flat"
    /\ json.t = "object"
    /\ Len(json.v) >= 2
    /\ \E i \in 1..Len(json.v) : json.v[i].v.t = "array" /\ Len(json.v[i].v.v) > 0
    /\ Len(Leaves(json)) = 0
    /\ flat = Object(<<>>)

====
